---- MODULE Spec2Model ----
(***************************************************************************)
(* A model of stackalloc: the process-wide pool of reserved "stacks"       *)
(* (stackalloc.cpp: locked, allocated, stacks[], acquire_stack,            *)
(* release_stack) and the containers of stackalloc.h that bump-allocate    *)
(* from a stack (basic_vector, vector, vector_max, vector_pool).           *)
(*                                                                         *)
(* Addresses are integers (bytes).  Every element type of the model has    *)
(* the size sizeof_T, so objects that share an address share it wholly.    *)
(* size_t arithmetic is taken modulo SIZE_MOD = 2^SizeBits.                *)
(***************************************************************************)
EXTENDS Integers, Sequences, FiniteSets, TLC

\* ------------------------------------------------------------ bounds
\* Width of size_t in the model.
SizeBits == 8
\* Number of elements of sizeof_T bytes one reserved stack holds.
StackElems == 2
\* Largest number of simultaneously live objects (containers, raw holders)
\* in the runs that only construct and destroy.
MaxLive == 4
\* Largest number of simultaneously live containers in the runs that also
\* push, pop, alloc and reuse.
MaxDataLive == 1
\* Largest max handed to vector_max's constructor.
MaxCarve == 1
\* Largest size handed to push_multiple.
MaxMulti == 2
\* sizeof(T) in bytes.
sizeof_T == 2
\* Number of slots of stacks[].
DEFAULT_MAX_STACKS == 3
\* Bytes per page (sys_info.dwPageSize), a power of two on real systems.
PageSize == 2
\* Pages commit_and_guard commits at once.
COMMIT_PAGES_AT_ONCE == 2
\* Pages one alloc_stack_address_space call reserves.
WinPages == 5
\* Places of the address space at which a reservation can lie.
WinRegions == 3

SIZE_MOD == 2 ^ SizeBits

\* Reserved bytes per stack.
DEFAULT_LARGE_STACK == StackElems * sizeof_T

\* Element values (0 is what untouched memory reads).
Val == {1, 2}

Slots == 0 .. (DEFAULT_MAX_STACKS - 1)

VARIABLES
    locked,         \* static size_t locked
    allocated,      \* static size_t allocated
    stacks,         \* static stack stacks[DEFAULT_MAX_STACKS]: sp, memory, size
    mem,            \* contents of written memory: address -> value
    objs,           \* live objects in construction order
    status,         \* "running", or how the run ended: "abort" (abort()),
                    \* "assert" (a failed assertion), "ub" (undefined
                    \* behaviour), "ndebug" (the state an NDEBUG build is in
                    \* after a failing assertion it compiled out; the model
                    \* follows such a run no further), "ill-formed" (the
                    \* program is rejected by the compiler), or the code of the
                    \* exception that propagated out of the fault handler
    ret,            \* the stack* or T& the last call returned, 0 if none
    matched,        \* history: no release_stack() without an outstanding acquire
    win             \* the explicit-commit platform: page_size (0 until the
                    \* fault handler is installed), who reserved each region,
                    \* and the committed pages

vars == <<locked, allocated, stacks, mem, objs, status, ret,
          matched, win>>

\* ------------------------------------------------------------ memory

\* Where the operating system places the reservation of slot i: distinct
\* reservations are disjoint, and one unmapped element lies between them.
Base(i) == (i + 1) * (DEFAULT_LARGE_STACK + sizeof_T)

\* mmap / VirtualAlloc as seen by stack::alloc: the base address, or nullptr.
alloc_stack_address_space(i, os_ok) == IF os_ok THEN Base(i) ELSE 0

\* stack::alloc that leaves sp unset.
stack_alloc_nosp(i, _size, os_ok) ==
    [sp |-> 0, memory |-> alloc_stack_address_space(i, os_ok), size |-> _size]

\* stack::alloc(_size) on slot i.
stack_alloc(i, _size, os_ok) ==
    LET p == alloc_stack_address_space(i, os_ok)
    IN  [sp |-> p, memory |-> p, size |-> _size]

\* A default-constructed stack.
stack_init == [sp |-> 0, memory |-> 0, size |-> 0]

\* An object of sizeof_T bytes at address a lies inside a reservation.
Mapped(sts, a) ==
    \E i \in Slots :
        /\ sts[i].memory # 0
        /\ sts[i].memory <= a
        /\ a + sizeof_T <= sts[i].memory + sts[i].size

\* Reading the object at address a (reserved pages read as zero until written).
Load(m, a) == IF a \in DOMAIN m THEN m[a] ELSE 0

\* memcpy(a, &v, sizeof(T)).
Store(m, a, v) == (a :> v) @@ m

\* ------------------------------------------------------------ the pool

\* The pool's state handed through a call: P = [locked, allocated, stacks,
\* out, slot]; out is "ok", "abort" or "ub", slot the index of the stack
\* returned.
Pool == [locked |-> locked, allocated |-> allocated, stacks |-> stacks,
         out |-> "ok", slot |-> 0]

\* acquire_stack() that hands out stacks[0] again when the table is full.
acquire_stack_wrap(P, os_ok) ==
    IF P.out # "ok" THEN P
    ELSE IF P.allocated = P.locked
    THEN IF P.allocated = DEFAULT_MAX_STACKS
         THEN [P EXCEPT !.slot = 0]
         ELSE LET Q == [P EXCEPT
                          !.stacks[P.allocated] =
                              [sp |-> alloc_stack_address_space(P.allocated, os_ok),
                               memory |-> alloc_stack_address_space(P.allocated, os_ok),
                               size |-> DEFAULT_LARGE_STACK],
                          !.allocated = @ + 1]
              IN  IF ~os_ok
                  THEN [Q EXCEPT !.out = "abort"]
                  ELSE [Q EXCEPT !.locked = @ + 1, !.slot = P.locked]
    ELSE IF P.locked \in Slots
         THEN [P EXCEPT !.locked = @ + 1, !.slot = P.locked]
         ELSE [P EXCEPT !.locked = (@ + 1) % SIZE_MOD, !.out = "ub"]

\* stack *acquire_stack()
acquire_stack(P, os_ok) ==
    IF P.out # "ok" THEN P
    ELSE IF P.allocated = P.locked
    THEN IF P.allocated = DEFAULT_MAX_STACKS
         THEN [P EXCEPT !.out = "abort"]
         ELSE LET Q == [P EXCEPT
                          !.stacks[P.allocated] =
                              stack_alloc(P.allocated, DEFAULT_LARGE_STACK, os_ok),
                          !.allocated = @ + 1]
              IN  IF ~os_ok
                  THEN [Q EXCEPT !.out = "abort"]
                  ELSE [Q EXCEPT !.locked = @ + 1, !.slot = P.locked]
    ELSE IF P.locked \in Slots
         THEN [P EXCEPT !.locked = @ + 1, !.slot = P.locked]
         \* &stacks[locked] lies outside the array
         ELSE [P EXCEPT !.locked = (@ + 1) % SIZE_MOD, !.out = "ub"]

\* release_stack() that also gives the released stack back.
release_stack_shrink(P) ==
    IF P.out # "ok" THEN P
    ELSE [P EXCEPT !.locked = (@ - 1) % SIZE_MOD,
                   !.allocated = IF @ > 0 THEN @ - 1 ELSE @]

\* release_stack() that forgets the decrement.
release_stack_noop(P) == P

\* void release_stack()
release_stack(P) ==
    IF P.out # "ok" THEN P
    ELSE [P EXCEPT !.locked = (@ - 1) % SIZE_MOD]

\* ------------------------------------------------------------ objects

\* A live object.  kind: "raw" (a caller holding the stack* of a plain
\* acquire_stack()), "vector", "vector_max" or "vector_pool".
\*   st, begin, end, capacity: the container's stack slot and pointers
\*   fst, fbegin, fend: vector_pool::free_list (a vector<T *>)
\* and its history:
\*   pushed: the values pushed and not yet popped, oldest first
\*   lk: locked when the constructor was entered
\*   sp0: the sp of the object's stack when the constructor was entered
\*        (the sp stack::alloc sets, for a stack the constructor materializes)
\*   max: the argument of vector_max's constructor
\*   over: an element was stored outside the range a vector_max carved
\*   freed: the references passed to reuseable() and not handed out again
\*          since, oldest first
Obj(kind, st, sp) ==
    [kind |-> kind, st |-> st, begin |-> sp, end |-> sp, capacity |-> 0,
     fst |-> 0, fbegin |-> 0, fend |-> 0,
     pushed |-> << >>, lk |-> 0, sp0 |-> 0, max |-> 0, over |-> FALSE,
     freed |-> << >>]

\* basic_vector::size(), as written: (begin - end) / sizeof(T) in size_t.
size(begin, end) == ((begin - end) % SIZE_MOD) \div sizeof_T

\* The number of elements between begin and end.
count(begin, end) == (end - begin) \div sizeof_T

\* basic_vector::operator[] without its assertion: the address of element i.
at(c, i) == c.begin + i * sizeof_T

\* The objects are automatic variables ("vectors owned by local variables"):
\* the one that goes out of scope is the one constructed last.
Top == Len(objs)

ButLast(s) == IF s = << >> THEN s ELSE SubSeq(s, 1, Len(s) - 1)

\* ret after a call that returns nothing
NoRet == 0

\* &stacks[i]: static storage, apart from the reserved address space
\* (negative in the model).
stack_ptr(i) == 0 - (i + 1)

Running == status = "running"

\* The pool's part of the state after a call that ended with P.
SetPool(P) ==
    /\ locked' = P.locked
    /\ allocated' = P.allocated
    /\ stacks' = P.stacks

Init ==
    /\ locked = 0
    /\ allocated = 0
    /\ stacks = [i \in Slots |-> stack_init]
    /\ mem = << >>
    /\ objs = << >>
    /\ status = "running"
    /\ ret = NoRet
    /\ matched = TRUE
    /\ win = [page_size |-> 0,
              region |-> [r \in 0 .. (WinRegions - 1) |-> "free"],
              committed |-> {}]

\* ------------------------------------------------------------ raw calls

\* A constructor (or a plain acquire_stack()) ended with pool state P and,
\* when it returned, built the object c; max is vector_max's argument.
Constructed(P, c, max, r) ==
    /\ SetPool(P)
    /\ status' = IF P.out = "ok" THEN status ELSE P.out
    /\ objs' = IF P.out = "ok"
               THEN Append(objs, [c EXCEPT !.lk = locked,
                                           !.sp0 = IF c.st < allocated
                                                   THEN stacks[c.st].sp
                                                   ELSE P.stacks[c.st].memory,
                                           !.max = max])
               ELSE objs
    /\ ret' = IF P.out = "ok" THEN r ELSE ret
    /\ UNCHANGED <<mem, matched, win>>

\* A caller calls acquire_stack() and keeps the stack*.
AcquireStack(n) ==
    /\ Running
    /\ Len(objs) < n
    /\ \E os_ok \in BOOLEAN :
        LET P == acquire_stack(Pool, os_ok)
        IN  Constructed(P, Obj("raw", P.slot, P.stacks[P.slot].sp), 0,
                        stack_ptr(P.slot))

\* The holder of the last plain acquire_stack() calls release_stack().
ReleaseStack ==
    /\ Running
    /\ objs # << >>
    /\ objs[Top].kind = "raw"
    /\ SetPool(release_stack(Pool))
    /\ objs' = ButLast(objs)
    /\ ret' = NoRet
    /\ UNCHANGED <<mem, status, matched, win>>

\* release_stack() called with no acquire_stack() outstanding.
ReleaseUnmatched ==
    /\ Running
    /\ matched
    /\ objs = << >>
    /\ SetPool(release_stack(Pool))
    /\ matched' = FALSE
    /\ ret' = NoRet
    /\ UNCHANGED <<mem, objs, status, win>>

\* ------------------------------------------------------------ construction

\* vector() that takes stacks[0] whatever acquire_stack() returned.
vector_ctor_zero(P) == Obj("vector", 0, P.stacks[0].sp)

\* vector() that begins at the base of its stack, whatever was carved from it.
vector_ctor_base(P) == Obj("vector", P.slot, P.stacks[P.slot].memory)

\* vector() that begins one element past the stack's sp.
vector_ctor_skew(P) == Obj("vector", P.slot, P.stacks[P.slot].sp + sizeof_T)

\* vector(): basic_vector<T>(acquire_stack()->sp)
vector_ctor(P) == Obj("vector", P.slot, P.stacks[P.slot].sp)

Vector(n) ==
    /\ Running
    /\ Len(objs) < n
    /\ \E os_ok \in BOOLEAN :
        LET P == acquire_stack(Pool, os_ok)
        IN  Constructed(P, vector_ctor(P), 0, NoRet)

\* The bytes vector_max(max) carves.
carve(max) == (max * sizeof_T) % SIZE_MOD

\* vector_max(max): st(acquire_stack()), capacity(st->sp + max * sizeof(T)),
\* begin = end = st->sp.
vector_max_ctor(P, max) ==
    [Obj("vector_max", P.slot, P.stacks[P.slot].sp) EXCEPT
        !.capacity = P.stacks[P.slot].sp + carve(max)]

\* vector_max(max) that keeps its stack locked.
vector_max_pool_keep(P, max) ==
    IF P.out # "ok" THEN P
    ELSE [P EXCEPT !.stacks[P.slot].sp = @ + carve(max)]

\* vector_max(max) that forgets st->sp += max * sizeof(T).
vector_max_pool_nobump(P, max) ==
    IF P.out # "ok" THEN P ELSE release_stack(P)

\* vector_max(max), the pool's side: st->sp += max * sizeof(T); release_stack().
vector_max_pool(P, max) ==
    IF P.out # "ok" THEN P
    ELSE release_stack([P EXCEPT !.stacks[P.slot].sp = @ + carve(max)])

VectorMax(n) ==
    /\ Running
    /\ Len(objs) < n
    /\ \E os_ok \in BOOLEAN, max \in 0 .. MaxCarve :
        LET P == acquire_stack(Pool, os_ok)
        IN  Constructed(vector_max_pool(P, max), vector_max_ctor(P, max), max,
                        NoRet)

\* vector_pool() whose free_list starts on the stack of the elements.
vector_pool_ctor_same(P, Q) ==
    [Obj("vector_pool", P.slot, P.stacks[P.slot].sp) EXCEPT
        !.fst = P.slot,
        !.fbegin = P.stacks[P.slot].sp,
        !.fend = P.stacks[P.slot].sp]

\* vector_pool(): the base vector<T> acquires a stack (P), then the member
\* free_list, a vector<T *>, acquires the next (Q).
vector_pool_ctor(P, Q) ==
    [Obj("vector_pool", P.slot, P.stacks[P.slot].sp) EXCEPT
        !.fst = Q.slot,
        !.fbegin = Q.stacks[Q.slot].sp,
        !.fend = Q.stacks[Q.slot].sp]

VectorPool(n) ==
    /\ Running
    /\ Len(objs) < n
    /\ \E os_ok1 \in BOOLEAN, os_ok2 \in BOOLEAN :
        LET P == acquire_stack(Pool, os_ok1)
            Q == acquire_stack(P, os_ok2)
        IN  Constructed(Q, vector_pool_ctor(P, Q), 0, NoRet)

\* vector_fixed(stack *st, T *t, size_t len) on the stack a caller holds:
\* the constructor has no well-formed instantiation.  Its initializer
\* basic_vector<T>(st) hands a stack * to basic_vector(uint8_t *sp), its body
\* names begin without this->, and the destructor calls this->begin(), a
\* uint8_t *.  A program that constructs a vector_fixed is rejected by the
\* compiler: no object comes to life and no sp moves.
VectorFixed(n) ==
    /\ Running
    /\ Len(objs) < n
    /\ objs # << >>
    /\ objs[Top].kind = "raw"
    /\ status' = "ill-formed"
    /\ UNCHANGED <<locked, allocated, stacks, mem, objs, ret, matched, win>>

\* ------------------------------------------------------------ destruction

Destroyed ==
    /\ objs' = ButLast(objs)
    /\ ret' = NoRet
    /\ UNCHANGED <<mem, status, matched, win>>

\* ~vector(): release_stack()
DestroyVector ==
    /\ Running
    /\ objs # << >>
    /\ objs[Top].kind = "vector"
    /\ SetPool(release_stack(Pool))
    /\ Destroyed

\* ~vector_max() that does not rewind.
vector_max_dtor_keep(P, c) == P

\* ~vector_max(): st->sp = this->begin
vector_max_dtor(P, c) == [P EXCEPT !.stacks[c.st].sp = c.begin]

DestroyVectorMax ==
    /\ Running
    /\ objs # << >>
    /\ objs[Top].kind = "vector_max"
    /\ SetPool(vector_max_dtor(Pool, objs[Top]))
    /\ Destroyed

\* ~vector_pool(): ~free_list(), then ~vector<T>(): two release_stack().
DestroyVectorPool ==
    /\ Running
    /\ objs # << >>
    /\ objs[Top].kind = "vector_pool"
    /\ SetPool(release_stack(release_stack(Pool)))
    /\ Destroyed

\* ------------------------------------------------------------ basic_vector

\* The outcome of a call on objs[i]: R = [out, mem, c, ret, skipped].
\*   out: "ok", "assert" or "ub"; mem: memory after the call; c: the object
\*   after the call; ret: what the call returned; skipped: a failing assert
\*   was compiled out.
Called(i, R) ==
    /\ status' = IF R.out # "ok" THEN R.out
                 ELSE IF R.skipped THEN "ndebug"
                 ELSE status
    /\ mem' = IF R.out = "ok" THEN R.mem ELSE mem
    /\ objs' = IF R.out = "ok" THEN [objs EXCEPT ![i] = R.c] ELSE objs
    /\ ret' = IF R.out = "ok" THEN R.ret ELSE ret
    /\ UNCHANGED <<locked, allocated, stacks, matched, win>>

Call(c) == [out |-> "ok", mem |-> mem, c |-> c, ret |-> NoRet, skipped |-> FALSE]

\* The builds to tell apart at assert(cond): none when it holds.
Builds(cond) == IF cond THEN {FALSE} ELSE BOOLEAN

\* assert(cond) in a call that has come to R: a debug build stops at a
\* failing assertion, an NDEBUG build goes on.
assert(R, cond, ndebug) ==
    IF R.out # "ok" \/ cond THEN R
    ELSE IF ndebug THEN [R EXCEPT !.skipped = TRUE]
    ELSE [R EXCEPT !.out = "assert"]

\* memcpy(p, &t, sizeof(T)) in a call that has come to R.
memcpy(R, p, t) ==
    IF R.out # "ok" THEN R
    ELSE IF Mapped(stacks, p) THEN [R EXCEPT !.mem = Store(@, p, t)]
    ELSE [R EXCEPT !.out = "ub"]

\* A vector_max about to store an element outside the range it carved.
overrun(c) == c.kind = "vector_max" /\ c.end + sizeof_T > c.capacity

\* push_back that advances end before it copies.
push_back_late(R, t) ==
    LET S == memcpy(R, R.c.end + sizeof_T, t)
    IN  IF S.out # "ok" THEN S
        ELSE [S EXCEPT !.c.end = @ + sizeof_T,
                       !.c.pushed = Append(@, t),
                       !.c.over = @ \/ overrun(R.c)]

\* basic_vector::push_back(t): memcpy(end, &t, sizeof(T)); end += sizeof(T).
push_back(R, t) ==
    LET S == memcpy(R, R.c.end, t)
    IN  IF S.out # "ok" THEN S
        ELSE [S EXCEPT !.c.end = @ + sizeof_T,
                       !.c.pushed = Append(@, t),
                       !.c.over = @ \/ overrun(R.c)]

\* The pointer p - sizeof(T) of a pop: it must stay inside a reservation.
retract(R, p) ==
    IF R.out # "ok" \/ Mapped(stacks, p - sizeof_T) THEN R
    ELSE [R EXCEPT !.out = "ub"]

\* pop_back that drops the first element: begin += sizeof(T).
pop_back_front(R, ndebug) ==
    LET S == assert(R, R.c.end > R.c.begin, ndebug)
    IN  IF S.out # "ok" THEN S
        ELSE [S EXCEPT !.c.begin = @ + sizeof_T, !.c.pushed = ButLast(@)]

\* basic_vector::pop_back(): assert(end > begin); end -= sizeof(T).
pop_back(R, ndebug) ==
    LET S == retract(assert(R, R.c.end > R.c.begin, ndebug), R.c.end)
    IN  IF S.out # "ok" THEN S
        ELSE [S EXCEPT !.c.end = @ - sizeof_T, !.c.pushed = ButLast(@)]

\* basic_vector::pop(): assert(end > begin); end -= sizeof(T); return *end.
pop(R, ndebug) ==
    LET S == pop_back(R, ndebug)
    IN  IF S.out # "ok" THEN S ELSE [S EXCEPT !.ret = S.c.end]

\* basic_vector::back(): assert(end > begin); return *(end - 1).
back(R, ndebug) ==
    LET S == assert(R, R.c.end > R.c.begin, ndebug)
    IN  IF S.out # "ok" THEN S ELSE [S EXCEPT !.ret = S.c.end - sizeof_T]

\* basic_vector::push_multiple(elems, size): one memcpy of size elements,
\* end += size * sizeof(T).
RECURSIVE push_multiple(_, _)
push_multiple(R, elems) ==
    IF elems = << >> THEN R
    ELSE push_multiple(push_back(R, Head(elems)), Tail(elems))

\* vector_max::push_back(t) without its assertion.
vector_max_push_back_unchecked(R, t, ndebug) == push_back(R, t)

\* vector_max::push_back(t): assert(end < capacity), then as basic_vector.
vector_max_push_back(R, t, ndebug) ==
    push_back(assert(R, R.c.end < R.c.capacity, ndebug), t)

Containers == {"vector", "vector_max", "vector_pool"}

\* v.push_back(t) on a vector or a vector_pool
PushBack ==
    /\ Running
    /\ \E i \in 1 .. Len(objs), t \in Val :
        /\ objs[i].kind \in {"vector", "vector_pool"}
        /\ Called(i, push_back(Call(objs[i]), t))

\* v.push_back(t) on the vector_max objs[i]
PushBackMaxOf(i, t) ==
    /\ Running
    /\ i \in 1 .. Len(objs)
    /\ objs[i].kind = "vector_max"
    /\ \E ndebug \in Builds(objs[i].end < objs[i].capacity) :
        Called(i, vector_max_push_back(Call(objs[i]), t, ndebug))

PushBackMax == \E i \in 1 .. Len(objs), t \in Val : PushBackMaxOf(i, t)

\* v.pop_back()
PopBack ==
    /\ Running
    /\ \E i \in 1 .. Len(objs) :
        \E ndebug \in Builds(objs[i].end > objs[i].begin) :
        /\ objs[i].kind \in Containers
        /\ Called(i, pop_back(Call(objs[i]), ndebug))

\* v.pop()
Pop ==
    /\ Running
    /\ \E i \in 1 .. Len(objs) :
        \E ndebug \in Builds(objs[i].end > objs[i].begin) :
        /\ objs[i].kind \in Containers
        /\ Called(i, pop(Call(objs[i]), ndebug))

\* The arrays handed to push_multiple: of every size up to MaxMulti, with
\* neighbouring elements that differ.
Arrays ==
    {[j \in 1 .. n |-> IF j % 2 = 1 THEN t ELSE 3 - t] :
        n \in 0 .. MaxMulti, t \in Val}

\* v.push_multiple(elems, size)
PushMultiple ==
    /\ Running
    /\ \E i \in 1 .. Len(objs), elems \in Arrays :
        /\ objs[i].kind \in Containers
        /\ Called(i, push_multiple(Call(objs[i]), elems))

\* ------------------------------------------------------------ vector_pool

\* The history of a store of t through the reference p into container c.
stored(c, p, t) ==
    LET j == (p - c.begin) \div sizeof_T
    IN  IF p >= c.begin /\ j < Len(c.pushed) /\ at(c, j) = p
        THEN [c EXCEPT !.pushed[j + 1] = t]
        ELSE c

\* alloc that reads the last free-list entry and leaves it on the list.
alloc_peek(R, t, ndebug) ==
    IF size(R.c.fbegin, R.c.fend) # 0
    THEN LET S  == retract(assert(R, R.c.fend > R.c.fbegin, ndebug), R.c.fend)
             tn == Load(S.mem, S.c.fend - sizeof_T)
             U  == memcpy(S, tn, t)
         IN  IF U.out # "ok" THEN U
             ELSE [U EXCEPT !.c = stored(@, tn, t), !.ret = tn]
    ELSE back(push_back(R, t), ndebug)

\* alloc that never looks at the free list.
alloc_append(R, t, ndebug) == back(push_back(R, t), ndebug)

\* vector_pool::alloc(t)
alloc(R, t, ndebug) ==
    IF size(R.c.fbegin, R.c.fend) # 0
    THEN \* auto tn = free_list.pop(); return *tn = t;
         LET S  == retract(assert(R, R.c.fend > R.c.fbegin, ndebug), R.c.fend)
             tn == Load(S.mem, S.c.fend - sizeof_T)
             U  == memcpy(S, tn, t)
         IN  IF U.out # "ok" THEN U
             ELSE [U EXCEPT !.c = [stored(@, tn, t) EXCEPT !.fend = @ - sizeof_T],
                            !.ret = tn]
    ELSE \* this->push_back(t); return this->back();
         back(push_back(R, t), ndebug)

\* reuseable that also clears the element it is handed.
reuseable_wipe(R, p, ndebug) ==
    LET S == memcpy(memcpy(assert(R, p >= R.c.begin /\ p < R.c.end, ndebug),
                           R.c.fend, p), p, 0)
    IN  IF S.out # "ok" THEN S ELSE [S EXCEPT !.c.fend = @ + sizeof_T]

\* vector_pool::reuseable(t): assert(&t >= begin && &t < end);
\* free_list.push_back(&t).
reuseable(R, p, ndebug) ==
    LET S == memcpy(assert(R, p >= R.c.begin /\ p < R.c.end, ndebug), R.c.fend, p)
    IN  IF S.out # "ok" THEN S ELSE [S EXCEPT !.c.fend = @ + sizeof_T]

\* pool.alloc(t) on the vector_pool objs[i]
AllocOf(i, t) ==
    /\ Running
    /\ i \in 1 .. Len(objs)
    /\ objs[i].kind = "vector_pool"
    /\ \E ndebug \in Builds(objs[i].fend >= objs[i].fbegin
                              /\ objs[i].end >= objs[i].begin) :
        LET R == alloc(Call(objs[i]), t, ndebug)
        IN  Called(i, [R EXCEPT !.c.freed = ButLast(objs[i].freed)])

Alloc == \E i \in 1 .. Len(objs), t \in Val : AllocOf(i, t)

\* pool.reuseable(x) on the vector_pool objs[i], x the reference p
ReuseableOf(i, p) ==
    /\ Running
    /\ i \in 1 .. Len(objs)
    /\ objs[i].kind = "vector_pool"
    /\ \E ndebug \in Builds(p >= objs[i].begin /\ p < objs[i].end) :
        LET R == reuseable(Call(objs[i]), p, ndebug)
        IN  Called(i, [R EXCEPT !.c.freed = Append(objs[i].freed, p)])

\* x refers to an element slot of the pool's stack.
Reuseable ==
    \E i \in 1 .. Len(objs), j \in 0 .. (StackElems - 1) :
        ReuseableOf(i, at(objs[i], j))

\* ------------------------------------------------------------ explicit commit

\* The platform of the _WIN32 branch: address space is reserved first and
\* pages are committed when a write to them faults.  Regions are the places
\* at which the operating system may put a reservation of WinPages pages;
\* an unreserved page lies before each of them.  A region is "free", "ours"
\* (reserved by an alloc_stack_address_space call that returned it),
\* "leaked" (reserved by one that returned nullptr) or "other" (reserved by
\* another part of the process).

USE_GUARD_PAGES == FALSE

Regions == 0 .. (WinRegions - 1)

\* The bytes of one reservation.
WinSize == WinPages * PageSize

WinBase(r) == (r * (WinPages + 1) + 1) * PageSize

\* The addresses an instruction may touch.
WinAddrs == 0 .. (WinBase(WinRegions) - 1)

\* The page-aligned addresses of [vp, vp + len).
PagesOf(vp, len) == {q \in vp .. (vp + len - 1) : q % PageSize = 0}

\* The platform's state handed through a call, with ok, the result of the
\* last VirtualAlloc, and disp, what the exception filter returned.
WinCall == [page_size |-> win.page_size, region |-> win.region,
            committed |-> win.committed, ok |-> TRUE, disp |-> "none"]

SetWin(W) ==
    win' = [page_size |-> W.page_size, region |-> W.region,
            committed |-> W.committed]

\* VirtualAlloc(vp, len, MEM_COMMIT, PAGE_READWRITE): fails unless the whole
\* of [vp, vp + len) lies in one reserved region; committing a committed page
\* is no error.
VirtualAlloc_commit(W, vp, len, os_ok) ==
    IF /\ os_ok
       /\ \E r \in Regions :
            /\ W.region[r] # "free"
            /\ WinBase(r) <= vp
            /\ vp + len <= WinBase(r) + WinSize
    THEN [W EXCEPT !.committed = @ \cup PagesOf(vp, len), !.ok = TRUE]
    ELSE [W EXCEPT !.ok = FALSE]

\* bool commit_and_guard(uint8_t *vp)
commit_and_guard(W, vp, os_ok) ==
    LET page_increment == W.page_size * COMMIT_PAGES_AT_ONCE
        C == VirtualAlloc_commit(W, vp, page_increment, os_ok)
    IN  IF ~C.ok \/ ~USE_GUARD_PAGES THEN C
        ELSE VirtualAlloc_commit(C, vp + page_increment, W.page_size, os_ok)

\* (size_t)hit_address & ~(page_size - 1), page_size a power of two.
page_start(hit_address, page_size) == hit_address - (hit_address % page_size)

\* LONG WINAPI guard_page_exception_filter(_EXCEPTION_POINTERS *ep)
guard_page_exception_filter(W, code, hit_address, os_ok) ==
    IF code # (IF USE_GUARD_PAGES THEN "STATUS_GUARD_PAGE_VIOLATION"
                                  ELSE "STATUS_ACCESS_VIOLATION")
    THEN [W EXCEPT !.disp = "EXCEPTION_CONTINUE_SEARCH"]
    ELSE LET ps == page_start(hit_address, W.page_size)
                   + (IF USE_GUARD_PAGES THEN W.page_size ELSE 0)
             C  == commit_and_guard(W, ps, os_ok)
         IN  [C EXCEPT !.disp = IF C.ok THEN "EXCEPTION_CONTINUE_EXECUTION"
                                       ELSE "EXCEPTION_CONTINUE_SEARCH"]

\* uint8_t *alloc_stack_address_space(size_t size), _WIN32: the first call
\* installs the exception filter and reads the page size; the reservation
\* lands in region r.
alloc_stack_address_space_win(W, r, handler_ok, reserve_ok, commit_ok) ==
    IF W.page_size = 0 /\ ~handler_ok THEN [W EXCEPT !.ok = FALSE]
    ELSE LET V == [W EXCEPT !.page_size = PageSize]
         IN  IF ~reserve_ok THEN [V EXCEPT !.ok = FALSE]
             ELSE LET C == commit_and_guard([V EXCEPT !.region[r] = "ours"],
                                            WinBase(r), commit_ok)
                  IN  IF C.ok THEN C ELSE [C EXCEPT !.region[r] = "leaked"]

WinFrame == UNCHANGED <<locked, allocated, stacks, mem, objs, matched>>

\* stack::alloc reserves the address space of a new stack.
WinAllocStack ==
    /\ Running
    /\ \E r \in Regions, handler_ok \in BOOLEAN, reserve_ok \in BOOLEAN,
          commit_ok \in BOOLEAN :
        /\ win.region[r] = "free"
        /\ LET W == alloc_stack_address_space_win(WinCall, r, handler_ok,
                                                  reserve_ok, commit_ok)
           IN  /\ SetWin(W)
               /\ ret' = IF W.ok THEN WinBase(r) ELSE 0
    /\ status' = status
    /\ WinFrame

\* Another part of the process reserves address space of its own.
OtherReserve ==
    /\ Running
    /\ \E r \in Regions :
        /\ win.region[r] = "free"
        /\ win' = [win EXCEPT !.region[r] = "other"]
    /\ UNCHANGED <<status, ret>>
    /\ WinFrame

\* An exception with this code at address a goes to the filter, if it is
\* installed; unless the filter resumes execution the exception propagates
\* and the model follows the run no further.
Raised(code, a, os_ok) ==
    IF win.page_size = 0
    THEN /\ status' = code
         /\ UNCHANGED win
    ELSE LET W == guard_page_exception_filter(WinCall, code, a, os_ok)
         IN  /\ SetWin(W)
             /\ status' = IF W.disp = "EXCEPTION_CONTINUE_EXECUTION"
                          THEN status ELSE code

\* A write to address a, on a page that is not committed: an access
\* violation.
AccessOf(a, os_ok) ==
    /\ Running
    /\ a \in WinAddrs
    /\ page_start(a, PageSize) \notin win.committed
    /\ Raised("STATUS_ACCESS_VIOLATION", a, os_ok)
    /\ ret' = NoRet
    /\ WinFrame

Access == \E a \in WinAddrs, os_ok \in BOOLEAN : AccessOf(a, os_ok)

\* Some other exception (it carries no address the filter reads) is raised
\* while the filter is installed.
RaiseOther ==
    /\ Running
    /\ win.page_size # 0
    /\ \E code \in {"STATUS_GUARD_PAGE_VIOLATION", "STATUS_INTEGER_DIVIDE_BY_ZERO"} :
        Raised(code, 0, TRUE)
    /\ ret' = NoRet
    /\ WinFrame

\* ------------------------------------------------------------ specifications

\* Runs that construct and destroy objects and call the pool directly.
NextPool ==
    \/ AcquireStack(MaxLive)
    \/ ReleaseStack
    \/ ReleaseUnmatched
    \/ Vector(MaxLive)
    \/ VectorMax(MaxLive)
    \/ VectorPool(MaxLive)
    \/ VectorFixed(MaxLive)
    \/ DestroyVector
    \/ DestroyVectorMax
    \/ DestroyVectorPool

SpecPool == Init /\ [][NextPool]_vars

\* Runs that use vector and vector_max containers.
NextVec ==
    \/ Vector(MaxDataLive)
    \/ VectorMax(MaxDataLive)
    \/ DestroyVector
    \/ DestroyVectorMax
    \/ PushBack
    \/ PushBackMax
    \/ PopBack
    \/ Pop
    \/ PushMultiple

SpecVec == Init /\ [][NextVec]_vars

\* Runs that use one container at a time, of any kind.
NextOne ==
    \/ Vector(1)
    \/ VectorMax(1)
    \/ VectorPool(1)
    \/ DestroyVector
    \/ DestroyVectorMax
    \/ DestroyVectorPool
    \/ PushBack
    \/ PushBackMax
    \/ PopBack
    \/ Pop
    \/ PushMultiple
    \/ Alloc
    \/ Reuseable

SpecOne == Init /\ [][NextOne]_vars

\* Runs in which two vector or vector_max containers live together, as vm
\* and v1 of the benchmark do.
NextShare ==
    \/ Vector(2)
    \/ VectorMax(2)
    \/ DestroyVector
    \/ DestroyVectorMax
    \/ PushBack
    \/ PushBackMax
    \/ PopBack

SpecShare == Init /\ [][NextShare]_vars

\* Runs of the explicit-commit platform: reservations and faulting writes.
NextWin ==
    \/ WinAllocStack
    \/ OtherReserve
    \/ Access
    \/ RaiseOther

SpecWin == Init /\ [][NextWin]_vars

\* ------------------------------------------------------------ claims

\* The stack locks an object holds.
Locks(c) ==
    CASE c.kind = "vector_max" -> 0
      [] c.kind = "vector_pool" -> 2
      [] OTHER -> 1

\* The stack locks the first k live objects hold.
RECURSIVE Held(_)
Held(k) == IF k = 0 THEN 0 ELSE Held(k - 1) + Locks(objs[k])

\* The bytes the first k live objects have carved from the stack at slot s.
RECURSIVE CarvedOn(_, _)
CarvedOn(s, k) ==
    IF k = 0 THEN 0
    ELSE CarvedOn(s, k - 1)
         + (IF objs[k].kind = "vector_max" /\ objs[k].st = s
            THEN carve(objs[k].max) ELSE 0)

Live == 1 .. Len(objs)

\* C1: for every container, size() is the number of push_back calls minus
\* the number of pop_back calls, for every element count.
C1_SizeIsPushesMinusPops ==
    Running =>
        \A i \in Live :
            objs[i].kind \in Containers =>
                size(objs[i].begin, objs[i].end) = Len(objs[i].pushed)

\* C2: acquire and release are a balanced counter with LIFO reuse: locked is
\* the number of outstanding acquires, and the k-th outstanding acquire holds
\* slot k - 1, whatever was acquired and released before; the stack* a plain
\* acquire_stack() just returned is that of its slot.
C2_BalancedLifoReuse ==
    (Running /\ matched) =>
        /\ locked = Held(Len(objs))
        /\ \A i \in Live :
            /\ Locks(objs[i]) > 0 => objs[i].st = Held(i - 1)
            /\ Locks(objs[i]) > 0 => objs[i].lk = Held(i - 1)
            /\ objs[i].kind = "vector_pool" => objs[i].fst = Held(i - 1) + 1
        /\ ret < 0 => /\ objs # << >>
                      /\ objs[Top].kind = "raw"
                      /\ ret = stack_ptr(locked - 1)

\* Slots 1 and 2 were acquired and released (allocated is 3), and the next
\* cycle's first acquire has just returned slot 1 again.
C2_Witness ==
    /\ Running /\ matched
    /\ allocated = 3 /\ locked = 2
    /\ Len(objs) = 2
    /\ objs[1].kind = "raw" /\ objs[2].kind = "raw"
    /\ ret = stack_ptr(1)

\* C3: with matched releases, 0 <= locked <= allocated <= DEFAULT_MAX_STACKS
\* and every slot below allocated holds a materialized stack (memory
\* non-null, sp >= memory), while the process runs.
C3_PoolInvariant ==
    (Running /\ matched) =>
        /\ 0 <= locked
        /\ locked <= allocated
        /\ allocated <= DEFAULT_MAX_STACKS
        /\ \A s \in Slots :
            s < allocated =>
                /\ stacks[s].memory # 0
                /\ stacks[s].sp >= stacks[s].memory

C3_Witness ==
    /\ Running /\ matched
    /\ 0 < locked /\ locked < allocated
    /\ allocated = DEFAULT_MAX_STACKS
    /\ \E s \in Slots : s < allocated /\ stacks[s].sp > stacks[s].memory

\* C4: of two vector_max constructed one after the other with the same
\* number of locked stacks, the first still alive, the second is carved from
\* the same stack, begins at the first's capacity pointer, which is
\* first.begin + max1 * sizeof(T), and their regions do not overlap.
C4_AdjacentCarves ==
    Running =>
        \A i \in Live :
            (/\ i < Len(objs)
             /\ objs[i].kind = "vector_max"
             /\ objs[i + 1].kind = "vector_max"
             /\ objs[i].lk = objs[i + 1].lk) =>
                /\ objs[i + 1].st = objs[i].st
                /\ objs[i + 1].begin = objs[i].capacity
                /\ objs[i].capacity = objs[i].begin + objs[i].max * sizeof_T
                /\ \A a \in objs[i].begin .. (objs[i].capacity - 1) :
                       a \notin objs[i + 1].begin .. (objs[i + 1].capacity - 1)

C4_Witness ==
    /\ Running
    /\ \E i \in Live :
        /\ i < Len(objs)
        /\ objs[i].kind = "vector_max" /\ objs[i].max > 0
        /\ objs[i + 1].kind = "vector_max" /\ objs[i + 1].max > 0
        /\ objs[i].lk = objs[i + 1].lk

\* C5: alloc(t) with references waiting for reuse returns the one passed to
\* reuseable() last, that slot then reads t, and the element count does not
\* grow; with none waiting it appends t and returns the new last element.
C5_AllocReuse ==
    [][\A i \in Live, t \in Val :
        (AllocOf(i, t) /\ status' = "running") =>
            LET c == objs[i]
                d == objs'[i]
            IN  IF c.freed # << >>
                THEN /\ ret' = c.freed[Len(c.freed)]
                     /\ Load(mem', ret') = t
                     /\ count(d.begin, d.end) = count(c.begin, c.end)
                ELSE /\ count(d.begin, d.end) = count(c.begin, c.end) + 1
                     /\ ret' = at(d, count(d.begin, d.end) - 1)
                     /\ Load(mem', ret') = t]_vars

\* After alloc(a), alloc(b), reuseable(a), alloc(c): two elements, the free
\* list popped empty with a's address still in its first cell, and the last
\* call returned a's address.
C5_Witness ==
    /\ Running
    /\ Len(objs) = 1
    /\ objs[1].kind = "vector_pool"
    /\ Len(objs[1].pushed) = 2
    /\ objs[1].fend = objs[1].fbegin
    /\ Load(mem, objs[1].fbegin) = objs[1].begin
    /\ ret = objs[1].begin
    /\ Load(mem, ret) = objs[1].pushed[1]

\* C6: destroying a vector into which elements were pushed leaves its
\* stack's sp advanced past its value before the construction.
C6_SpLeftAdvanced ==
    [][(DestroyVector /\ objs[Top].end > objs[Top].begin) =>
            stacks'[objs[Top].st].sp > objs[Top].sp0]_vars

\* C6, amended: a vector begins at its stack's sp, push_back never moves
\* that sp, and destroying the vector leaves sp at its value before the
\* construction: every vector bound to a slot begins at the same address.
C6_SpNotAdvanced ==
    [][/\ DestroyVector => stacks'[objs[Top].st].sp = objs[Top].sp0
       /\ \A i \in 1 .. Len(objs') :
            objs'[i].kind = "vector" =>
                /\ objs'[i].begin = objs'[i].sp0
                /\ stacks'[objs'[i].st].sp = objs'[i].sp0]_vars

\* A new, still empty vector begins where an earlier vector stored an element.
C6_Witness ==
    /\ Running
    /\ \E i \in Live :
        /\ objs[i].kind = "vector"
        /\ objs[i].end = objs[i].begin
        /\ objs[i].begin \in DOMAIN mem
        /\ stacks[objs[i].st].sp = objs[i].begin

\* C7: while no vector_max has stored outside the range it carved,
\* operator[](i), for every i below the element count, reads the value most
\* recently pushed at position i, whatever was pushed to or popped from
\* higher positions or other containers since.
C7_IndexReadsPushed ==
    (Running /\ \A k \in Live : ~objs[k].over) =>
        \A i \in Live :
            objs[i].kind \in {"vector", "vector_max"} =>
                /\ count(objs[i].begin, objs[i].end) = Len(objs[i].pushed)
                /\ \A j \in 0 .. (Len(objs[i].pushed) - 1) :
                    Load(mem, at(objs[i], j)) = objs[i].pushed[j + 1]

\* Position 1 was pushed and popped again (pop() returned its address, its
\* value is still in memory) and position 0 reads what was pushed there.
C7_Witness ==
    /\ Running
    /\ \E i \in Live :
        /\ objs[i].kind \in {"vector", "vector_max"}
        /\ Len(objs[i].pushed) = 1
        /\ ret = at(objs[i], 1)
        /\ Load(mem, at(objs[i], 1)) # 0
        /\ Load(mem, at(objs[i], 1)) # objs[i].pushed[1]
        /\ Load(mem, at(objs[i], 0)) = objs[i].pushed[1]

\* C8: acquire_stack() with locked = allocated = DEFAULT_MAX_STACKS aborts
\* and changes nothing before; an acquire_stack() that returns found
\* locked < DEFAULT_MAX_STACKS and raised it by one.
C8_Exhaustion ==
    [][AcquireStack(MaxLive) =>
        IF locked = DEFAULT_MAX_STACKS /\ allocated = DEFAULT_MAX_STACKS
        THEN /\ status' = "abort"
             /\ UNCHANGED <<locked, allocated, stacks, mem, objs>>
        ELSE status' = "running" =>
                /\ locked < DEFAULT_MAX_STACKS
                /\ locked' = locked + 1
                /\ Len(objs') = Len(objs) + 1]_vars

\* DEFAULT_MAX_STACKS plain acquires succeeded and the next one aborted.
C8_Witness ==
    /\ status = "abort"
    /\ locked = DEFAULT_MAX_STACKS
    /\ allocated = DEFAULT_MAX_STACKS
    /\ Len(objs) = DEFAULT_MAX_STACKS
    /\ \A i \in Live : objs[i].kind = "raw"

\* The sp of every materialized stack is its memory plus what the live
\* vector_max objects carved from it.
Frontier ==
    (Running /\ matched) =>
        \A s \in Slots :
            s < allocated =>
                stacks[s].sp = stacks[s].memory + CarvedOn(s, Len(objs))

\* C9: destroying a vector_max restores its stack's sp to the value just
\* before its construction; with nested vector_max objects sp is always the
\* frontier of those still alive, and the original value when none is.
C9_Rewind ==
    [][/\ DestroyVectorMax => stacks'[objs[Top].st].sp = objs[Top].sp0
       /\ Frontier']_vars

\* Two nested vector_max on one stack, about to be destroyed.
C9_Witness ==
    /\ Running
    /\ Len(objs) = 2
    /\ objs[1].kind = "vector_max" /\ objs[1].max > 0
    /\ objs[2].kind = "vector_max" /\ objs[2].max > 0
    /\ objs[1].sp0 = stacks[objs[1].st].memory
    /\ objs[2].sp0 = objs[1].capacity
    /\ stacks[objs[2].st].sp = objs[2].capacity
    /\ ENABLED DestroyVectorMax

\* C10: begin is the address fixed at construction and no call on a live
\* container changes it, so the address of element i never changes.
C10_BeginFixed ==
    [][\A i \in Live :
        i <= Len(objs') =>
            /\ objs'[i].begin = objs[i].begin
            /\ objs'[i].begin = objs'[i].sp0
            /\ \A j \in 0 .. StackElems : at(objs'[i], j) = at(objs[i], j)]_vars

\* A vector_pool grown to two elements, one of them waiting for reuse.
C10_Witness ==
    /\ Running
    /\ \E i \in Live :
        /\ objs[i].kind = "vector_pool"
        /\ count(objs[i].begin, objs[i].end) = 2
        /\ objs[i].freed # << >>
        /\ objs[i].begin = objs[i].sp0

\* C11: every materialized stack has memory <= sp <= memory + size, whatever
\* vector_max objects (of any max) and vectors are constructed and destroyed.
C11_SpWithinReservation ==
    (Running /\ matched) =>
        \A s \in Slots :
            s < allocated =>
                /\ stacks[s].memory <= stacks[s].sp
                /\ stacks[s].sp <= stacks[s].memory + stacks[s].size

\* A vector_max that stored nothing outside its range has
\* begin <= end <= capacity = begin + max * sizeof(T), with as many elements
\* between begin and end as were pushed and not popped.
WithinCapacity ==
    Running =>
        \A i \in Live :
            (objs[i].kind = "vector_max" /\ ~objs[i].over) =>
                /\ objs[i].begin <= objs[i].end
                /\ objs[i].end <= objs[i].capacity
                /\ objs[i].capacity = objs[i].begin + objs[i].max * sizeof_T
                /\ count(objs[i].begin, objs[i].end) = Len(objs[i].pushed)
                /\ Len(objs[i].pushed) <= objs[i].max

\* C12: push_back and pop_back calls whose assertions hold keep a vector_max
\* within begin <= end <= capacity = begin + max * sizeof(T); a push_back
\* with max elements held violates the capacity assertion and writes
\* nothing, one with fewer than max elements held passes the assertion.
C12_CapacityChecked ==
    [][/\ WithinCapacity'
       /\ \A i \in Live, t \in Val :
            PushBackMaxOf(i, t) =>
                IF Len(objs[i].pushed) >= objs[i].max
                THEN /\ status' # "running"
                     /\ mem' = mem
                     /\ objs' = objs
                ELSE status' \notin {"assert", "ndebug"}]_vars

\* C12, amended: as C12, but what a push_back with max elements held does
\* depends on the build: with assertions enabled it stops at the assertion
\* and writes nothing; with NDEBUG the assertion is compiled out and the
\* element is written at capacity, outside the carved range.
C12_CapacityAsserted ==
    [][/\ WithinCapacity'
       /\ \A i \in Live, t \in Val :
            PushBackMaxOf(i, t) =>
                IF Len(objs[i].pushed) >= objs[i].max
                THEN /\ status' \in {"assert", "ndebug", "ub"}
                     /\ status' = "assert" => mem' = mem /\ objs' = objs
                     /\ status' = "ndebug" =>
                            /\ Load(mem', objs[i].end) = t
                            /\ objs'[i].end = objs[i].end + sizeof_T
                            /\ objs'[i].end > objs'[i].capacity
                            /\ objs'[i].over
                ELSE status' \notin {"assert", "ndebug"}]_vars

\* A vector_max filled to its max whose next push_back stopped at the
\* assertion.
C12_Witness ==
    /\ status = "assert"
    /\ \E i \in Live :
        /\ objs[i].kind = "vector_max"
        /\ objs[i].max > 0
        /\ Len(objs[i].pushed) = objs[i].max
        /\ objs[i].end = objs[i].capacity

\* The addresses of the elements the container c holds.
Occupied(c) == {at(c, j) : j \in 0 .. (count(c.begin, c.end) - 1)}

RegionsAt(a, kinds) ==
    {r \in Regions : /\ win.region[r] \in kinds
                     /\ WinBase(r) <= a
                     /\ a < WinBase(r) + WinSize}

\* C14: a write to any page of a stack's reserved range that is not yet
\* committed, from the first page to the last and in any order, is resolved
\* by the fault handler: it commits COMMIT_PAGES_AT_ONCE pages from the
\* faulting page on and execution resumes (the operating system granting
\* the commit).
C14_FaultCommits ==
    [][\A a \in WinAddrs :
        (AccessOf(a, TRUE) /\ RegionsAt(a, {"ours"}) # {}) =>
            /\ status' = "running"
            /\ win'.committed =
                   win.committed
                   \cup PagesOf(page_start(a, PageSize),
                                PageSize * COMMIT_PAGES_AT_ONCE)]_vars

\* C15: an access violation at an address outside every range reserved by
\* alloc_stack_address_space, ranges reserved by other parts of the process
\* included, makes the handler commit no page and return
\* EXCEPTION_CONTINUE_SEARCH: the fault propagates.
C15_OutsideFaultsPropagate ==
    [][\A a \in WinAddrs :
        (/\ \E os_ok \in BOOLEAN : AccessOf(a, os_ok)
         /\ RegionsAt(a, {"ours", "leaked"}) = {}) =>
            /\ win'.committed = win.committed
            /\ status' = "STATUS_ACCESS_VIOLATION"]_vars

\* C16: vector_fixed(S, t, len) on a caller-supplied stack S yields a
\* container that begins at S's sp before the call, holds the len source
\* elements, ends at begin + len * sizeof(T), and leaves S's sp at that end.
C16_FixedCarves ==
    [][VectorFixed(MaxLive) =>
        \E len \in 0 .. MaxMulti :
            /\ status' = "running"
            /\ Len(objs') = Len(objs) + 1
            /\ objs'[Len(objs')].kind = "vector_fixed"
            /\ objs'[Len(objs')].begin = stacks[objs[Top].st].sp
            /\ objs'[Len(objs')].end = objs'[Len(objs')].begin + len * sizeof_T
            /\ Len(objs'[Len(objs')].pushed) = len
            /\ stacks'[objs[Top].st].sp = objs'[Len(objs')].end]_vars

\* C17: with LIFO-nested vector and vector_max containers, every vector_max
\* kept within its max, the byte ranges [begin, end) of two live containers
\* are disjoint, and every container reads at each position what was pushed
\* there, whatever was pushed into the others.
C17_DisjointRanges ==
    (Running /\ \A k \in Live : ~objs[k].over) =>
        /\ \A i \in Live, j \in Live :
            i < j =>
                \/ objs[i].end <= objs[j].begin
                \/ objs[j].end <= objs[i].begin
        /\ \A i \in Live :
            /\ objs[i].begin <= objs[i].end
            /\ \A a \in Occupied(objs[i]) :
                Load(mem, a) = objs[i].pushed[((a - objs[i].begin) \div sizeof_T) + 1]

\* A filled vector_max and a vector that holds an element behind it on the
\* same stack, with different values at their first positions.
C17_Witness ==
    /\ Running
    /\ Len(objs) = 2
    /\ objs[1].kind = "vector_max"
    /\ objs[2].kind = "vector"
    /\ objs[1].st = objs[2].st
    /\ objs[1].end > objs[1].begin
    /\ objs[1].end = objs[2].begin
    /\ objs[2].end > objs[2].begin
    /\ Load(mem, objs[1].begin) # Load(mem, objs[2].begin)

\* C18: a vector constructed while k stacks are locked binds to slot k and
\* keeps that slot locked until it is destroyed, so no two live vectors share
\* a stack; destroying the innermost vector makes its slot the one the next
\* vector constructed at that depth binds to.
C18_VectorOwnsSlot ==
    [][/\ (Vector(MaxLive) /\ status' = "running") =>
            /\ objs'[Len(objs')].st = locked
            /\ locked' = locked + 1
       /\ (DestroyVector /\ matched) => locked' = objs[Top].st
       /\ (Running' /\ matched') =>
            \A i \in 1 .. Len(objs') :
                objs'[i].kind = "vector" =>
                    /\ objs'[i].st = objs'[i].lk
                    /\ objs'[i].st < locked'
                    /\ \A j \in 1 .. Len(objs') :
                        (j # i /\ objs'[j].kind = "vector") =>
                            objs'[j].st # objs'[i].st]_vars

\* Three stacks were materialized by deeper nesting that has ended; two
\* vectors are alive again, the outer on slot 0 and the inner on slot 1.
C18_Witness ==
    /\ Running /\ matched
    /\ allocated = 3 /\ locked = 2
    /\ Len(objs) = 2
    /\ objs[1].kind = "vector" /\ objs[1].st = 0
    /\ objs[2].kind = "vector" /\ objs[2].st = 1

\* The calls of acquire_stack() a step makes.
Acquires ==
    IF VectorPool(MaxLive) THEN 2
    ELSE IF AcquireStack(MaxLive) \/ Vector(MaxLive) \/ VectorMax(MaxLive)
    THEN 1 ELSE 0

\* C19: allocated never decreases; it grows only in a step that calls
\* acquire_stack(), by one for each call that finds locked = allocated; with
\* matched acquires and releases it is the largest value locked has reached
\* (inside constructors included); a vector constructed on a pool with no
\* stack locked binds to slot 0, takes allocated to 1 the first time and
\* leaves it alone afterwards, as does its destruction.
C19_AllocatedIsHighWater ==
    [][/\ allocated' >= allocated
       /\ allocated' > allocated =>
            /\ Acquires > 0
            /\ allocated' <= allocated + Acquires
            /\ locked <= allocated
            /\ allocated' <= locked + Acquires
       /\ (Running' /\ matched') =>
            allocated' = IF allocated >= locked + Acquires
                         THEN allocated ELSE locked + Acquires
       /\ (Vector(MaxLive) /\ status' = "running" /\ locked = 0) =>
            /\ objs'[Len(objs')].st = 0
            /\ allocated' = IF allocated >= 1 THEN allocated ELSE 1
       /\ DestroyVector => allocated' = allocated]_vars

\* Every stack was materialized by deeper nesting that has ended, and a
\* vector constructed on the empty pool is on slot 0 again.
C19_Witness ==
    /\ Running /\ matched
    /\ allocated = DEFAULT_MAX_STACKS
    /\ locked = 1
    /\ Len(objs) = 1
    /\ objs[1].kind = "vector" /\ objs[1].st = 0

\* C20: constructing a vector_max(max) while k stacks are locked leaves
\* locked at k, advances the sp of slot k by exactly max * sizeof(T) and
\* changes the sp of no other stack; a vector constructed right after it
\* binds to the same slot k and begins at the vector_max's capacity.
C20_CarveFrame ==
    [][/\ (VectorMax(MaxLive) /\ status' = "running") =>
            LET c == objs'[Len(objs')]
            IN  /\ locked' = locked
                /\ c.st = locked
                /\ stacks'[c.st].sp = c.sp0 + c.max * sizeof_T
                /\ c.capacity = stacks'[c.st].sp
                /\ locked < allocated => c.sp0 = stacks[locked].sp
                /\ \A s \in Slots :
                    s # c.st => stacks'[s].sp = stacks[s].sp
       /\ (/\ Vector(MaxLive) /\ status' = "running"
           /\ objs # << >>
           /\ objs[Top].kind = "vector_max") =>
            LET v == objs'[Len(objs')]
            IN  /\ v.st = objs[Top].st
                /\ v.st = objs[Top].lk
                /\ v.begin = objs[Top].capacity]_vars

\* A vector holds slot 0; a vector_max of one element was carved from slot 1
\* and the vector constructed after it begins where the carved element ends.
C20_Witness ==
    /\ Running /\ matched
    /\ locked = 2
    /\ Len(objs) = 3
    /\ objs[1].kind = "vector" /\ objs[1].st = 0
    /\ objs[2].kind = "vector_max" /\ objs[2].st = 1 /\ objs[2].max > 0
    /\ objs[3].kind = "vector" /\ objs[3].st = 1
    /\ objs[3].begin = objs[2].begin + objs[2].max * sizeof_T

\* The references the vector_pool c has on its free list, by its history.
Freed(c) == {c.freed[k] : k \in 1 .. Len(c.freed)}

\* The slots of the vector_pool c that are live: held and not waiting for
\* reuse.
LiveSlots(c) == Occupied(c) \ Freed(c)

\* Every slot the vector_pool objs[i] holds is live or is exactly once on
\* the free list, and free_list's cells on its stack hold those references
\* in the order they were handed to reuseable().
PoolSound(i) ==
    LET c == objs[i]
    IN  /\ c.begin <= c.end
        /\ c.fbegin <= c.fend
        /\ count(c.fbegin, c.fend) = Len(c.freed)
        /\ \A k \in 1 .. Len(c.freed) :
            /\ c.freed[k] \in Occupied(c)
            /\ Load(mem, c.fbegin + (k - 1) * sizeof_T) = c.freed[k]
            /\ \A l \in 1 .. Len(c.freed) : l # k => c.freed[l] # c.freed[k]

\* C21: in a vector_pool on which reuseable() is only called with a live
\* slot, every slot of the backing vector is live or exactly once on the
\* free list; alloc never returns a slot that is live, and push_back never
\* lands on one, so two live objects never share a slot.
C21_PoolSlotsExclusive ==
    [][/\ (VectorPool(1) /\ status' = "running") => PoolSound(1)'
       /\ \A i \in Live :
            (objs[i].kind = "vector_pool" /\ PoolSound(i)
                /\ status' = "running") =>
                LET c == objs[i]
                    d == objs'[i]
                IN  /\ \A t \in Val :
                        AllocOf(i, t) =>
                            /\ PoolSound(i)'
                            /\ ret' \notin LiveSlots(c)
                            /\ LiveSlots(d) = LiveSlots(c) \cup {ret'}
                            /\ c.freed # << >> => ret' \in Freed(c)
                    /\ \A t \in Val :
                        Called(i, push_back(Call(c), t)) =>
                            /\ PoolSound(i)'
                            /\ c.end \notin Occupied(c)
                            /\ LiveSlots(d) = LiveSlots(c) \cup {c.end}
                    /\ \A p \in LiveSlots(c) :
                        ReuseableOf(i, p) =>
                            /\ PoolSound(i)'
                            /\ LiveSlots(d) = LiveSlots(c) \ {p}
                            /\ Freed(d) = Freed(c) \cup {p}]_vars

\* Two elements were allocated and both handed to reuseable(), the second
\* first: each slot is on the free list once and none is live.
C21_Witness ==
    /\ Running
    /\ Len(objs) = 1
    /\ objs[1].kind = "vector_pool"
    /\ PoolSound(1)
    /\ Len(objs[1].pushed) = 2
    /\ objs[1].freed = <<objs[1].begin + sizeof_T, objs[1].begin>>
    /\ LiveSlots(objs[1]) = {}

\* The addresses of the reservation of the stack at slot s.
Reservation(s) == stacks[s].memory .. (stacks[s].memory + stacks[s].size - 1)

\* Every live vector_pool has its elements on the slot that was the next to
\* lock when it was constructed and its free list on the slot after it, both
\* still locked; each begins at or after the base of its own reservation,
\* the two reservations share no address, and no other live object holds
\* either slot.
PoolLocks ==
    (Running /\ matched) =>
        \A i \in Live :
            objs[i].kind = "vector_pool" =>
                LET c == objs[i]
                IN  /\ c.st = c.lk
                    /\ c.fst = c.lk + 1
                    /\ c.fst < locked
                    /\ c.fst < allocated
                    /\ c.begin >= stacks[c.st].memory
                    /\ c.fbegin >= stacks[c.fst].memory
                    /\ Reservation(c.st) \cap Reservation(c.fst) = {}
                    /\ \A j \in Live :
                        (j # i /\ Locks(objs[j]) > 0) =>
                            /\ objs[j].st \notin {c.st, c.fst}
                            /\ objs[j].kind = "vector_pool" =>
                                    objs[j].fst \notin {c.st, c.fst}

\* C22: a vector_pool holds two stack locks while it lives: constructing it
\* with k stacks locked takes locked to k + 2, with the elements on slot k
\* and the free list on slot k + 1, two stacks whose reservations share no
\* address, and destroying it takes locked back to k.
C22_PoolHoldsTwoStacks ==
    [][/\ (VectorPool(MaxLive) /\ status' = "running") =>
            LET c == objs'[Len(objs')]
            IN  /\ locked' = locked + 2
                /\ c.st = locked
                /\ c.fst = locked + 1
                /\ c.begin = stacks'[c.st].sp
                /\ c.fbegin = stacks'[c.fst].sp
       /\ (DestroyVectorPool /\ matched) =>
            /\ locked' = locked - 2
            /\ locked' = objs[Top].lk
       /\ PoolLocks']_vars

\* A vector holds slot 0 and a vector_pool constructed with one stack locked
\* holds slots 1 and 2.
C22_Witness ==
    /\ Running /\ matched
    /\ locked = 3
    /\ Len(objs) = 2
    /\ objs[1].kind = "vector" /\ objs[1].st = 0
    /\ objs[2].kind = "vector_pool"
    /\ objs[2].st = 1 /\ objs[2].fst = 2
    /\ objs[2].fbegin \in Reservation(2)

====
